---------------------------- MODULE Spec2Model ----------------------------
(***************************************************************************)
(* Aquarium (web-intel/aquarium, aquarium-optimized): the per-frame        *)
(* resource lifecycle of the fish population.                              *)
(*                                                                         *)
(*   Aquarium.cpp     calculateFishCount, render, updateAndDraw, display,  *)
(*                    getElapsedTime, resetFpsTime                         *)
(*   FPSTimer.cpp     FPSTimer, update, variance                           *)
(*   ContextDawn.cpp  reallocResource, destoryFishResource,                *)
(*                    updateAllFishData, MapWriteCallback, DoFlush, Flush  *)
(*                                                                         *)
(* Seven specifications share the variables:                               *)
(*   Spec         the frame loop of Aquarium::display                      *)
(*   SpecSteady   the same loop with scripted population changes off       *)
(*   SpecPlanner  Aquarium::calculateFishCount run species by species for  *)
(*                a range of totals                                        *)
(*   SpecClock    the frame loop with the run-time limit (--test-time) on  *)
(*   SpecTimer    an FPSTimer fed with a sequence of frame times           *)
(*   SpecInit     Aquarium::init on a freshly constructed Aquarium         *)
(*   SpecResize   the frame loop with resize signals between frames        *)
(*                                                                         *)
(* Time is counted in ticks of 1/TicksPerSecond s.  FPSTimer.h is not part *)
(* of the sources at hand: the averaging window and the history are kept   *)
(* short (NUM_FRAMES_TO_AVERAGE, NUM_HISTORY_DATA) so that they fill and   *)
(* wrap within a run.                                                      *)
(***************************************************************************)
EXTENDS Integers, Sequences, FiniteSets, TLC

(***************************************************************************)
(* Bounds of the model.                                                    *)
(***************************************************************************)
MaxFrames == 4
MaxEvents == 2
MaxDelay == 1
MaxInitFish == 2
BigCount == 12
MaxPlannerTotal == 130
TicksPerSecond == 8
NUM_FRAMES_TO_AVERAGE == 2
NUM_HISTORY_DATA == 3
MaxUpdates == 6
MaxTestTime == 1

(***************************************************************************)
(* Aquarium.h: the species table and the tuning constants read by          *)
(* calculateFishCount.                                                     *)
(***************************************************************************)
BIG == 0
MEDIUM == 1
SMALL == 2
FISHENUM_MAX == 3

g_numFishSmall == 100
g_numFishMedium == 1000
g_numFishBig == 10000
g_numFishLeftSmall == 80
g_numFishLeftBig == 160

\* fishTable[i]: slot is modelName - MODELSMALLFISHA, the index into fishCount.
fishTable ==
  << [name |-> "SmallFishA",  slot |-> 0, type |-> SMALL],
     [name |-> "MediumFishA", slot |-> 1, type |-> MEDIUM],
     [name |-> "MediumFishB", slot |-> 2, type |-> MEDIUM],
     [name |-> "BigFishA",    slot |-> 3, type |-> BIG],
     [name |-> "BigFishB",    slot |-> 4, type |-> BIG] >>

NumSpecies == Len(fishTable)
Slots == 0 .. (NumSpecies - 1)

NULL == -1

(***************************************************************************)
(* C++ helpers.                                                            *)
(***************************************************************************)
\* std::min on int
Min(a, b) == IF a < b THEN a ELSE b

\* int / int truncates toward zero
CDiv(a, b) == IF a >= 0 THEN a \div b ELSE -((-a) \div b)

RECURSIVE SumSlots(_, _)
SumSlots(f, n) == IF n < 0 THEN 0 ELSE f[n] + SumSlots(f, n - 1)

\* the sum of the per-species counts
SumFishCount(f) == SumSlots(f, NumSpecies - 1)

(***************************************************************************)
(* Aquarium::calculateFishCount                                            *)
(***************************************************************************)
\* A plausible slip: the species are served in table order, whatever their
\* class.
OrderFromTable(i, j) == [k \in 1 .. NumSpecies |-> k]

RECURSIVE OrderFrom(_, _)
\* The (class, species) pairs in the order the two nested loops visit them:
\* for i in 0 .. MAX-1, for fishInfo in fishTable, skipping fishInfo.type # i.
OrderFrom(i, j) ==
  IF i >= FISHENUM_MAX THEN << >>
  ELSE IF j > NumSpecies THEN OrderFrom(i + 1, 1)
  ELSE IF fishTable[j].type = i THEN << j >> \o OrderFrom(i, j + 1)
  ELSE OrderFrom(i, j + 1)

ServeOrder == OrderFrom(0, 1)

\* A plausible slip: the SMALL class capped like the MEDIUM class.
NumFloatCapped(type, total, left) ==
  IF type = BIG THEN Min(left, IF total < g_numFishSmall THEN 1 ELSE 2)
  ELSE IF type = MEDIUM THEN
    IF total < g_numFishMedium THEN Min(left, CDiv(total, 10))
    ELSE IF total < g_numFishBig THEN Min(left, g_numFishLeftSmall)
    ELSE Min(left, g_numFishLeftBig)
  ELSE Min(left, g_numFishLeftBig)

\* numfloat for one species of class `type`, with total = mCurFishCount and
\* left = numLeft.
NumFloat(type, total, left) ==
  IF type = BIG THEN Min(left, IF total < g_numFishSmall THEN 1 ELSE 2)
  ELSE IF type = MEDIUM THEN
    IF total < g_numFishMedium THEN Min(left, CDiv(total, 10))
    ELSE IF total < g_numFishBig THEN Min(left, g_numFishLeftSmall)
    ELSE Min(left, g_numFishLeftBig)
  ELSE left

\* A plausible slip: a species that gets nothing keeps the count it had.
CalcIterationKeepsCount(k, total, left, counts) ==
  LET info == fishTable[ServeOrder[k]]
      numfloat == NumFloat(info.type, total, left)
  IN  [numLeft |-> left - numfloat,
       fishCount |-> IF numfloat = 0 THEN counts
                     ELSE [counts EXCEPT ![info.slot] = numfloat]]

\* One iteration of the inner loop body for the k-th served species.
CalcIteration(k, total, left, counts) ==
  LET info == fishTable[ServeOrder[k]]
      numfloat == NumFloat(info.type, total, left)
  IN  [numLeft |-> left - numfloat,
       fishCount |-> [counts EXCEPT ![info.slot] = numfloat]]

RECURSIVE CalcFrom(_, _, _, _)
CalcFrom(k, total, left, counts) ==
  IF k > Len(ServeOrder) THEN counts
  ELSE LET r == CalcIteration(k, total, left, counts)
       IN  CalcFrom(k + 1, total, r.numLeft, r.fishCount)

\* The whole function: the fishCount array it leaves behind.
calculateFishCount(total, counts) == CalcFrom(1, total, total, counts)

ZeroCounts == [s \in Slots |-> 0]

VARIABLES
  \* Aquarium
  mCurFishCount, mPreFishCount, fishCount, mFishBehavior, toggleBitset,
  \* ContextDawn
  mPreTotalInstance, mCurTotalInstance, mEnableDynamicBufferOffset,
  fishPers, bindGroupFishPers, fishPersBuffer, stagingBuffer,
  mappedData, mCommandBuffers, mapPending, mIsSwapchainOutOfDate,
  \* position in Aquarium::display and the frame being rendered
  pc, frameNo,
  \* calculateFishCount run step by step (SpecPlanner)
  numLeft, calcPos,
  \* the clock read by clock(), Aquarium::g (then, start), --test-time and
  \* the FPSTimer
  now, g, mTestTime, mFpsTimer,
  \* the seed of matrix::pseudoRandom
  randomSeed,
  \* history of the run
  hist

aquariumVars == << mCurFishCount, mPreFishCount, fishCount, mFishBehavior, toggleBitset >>
contextVars == << mPreTotalInstance, mCurTotalInstance, mEnableDynamicBufferOffset,
                  fishPers, bindGroupFishPers, fishPersBuffer, stagingBuffer,
                  mappedData, mCommandBuffers, mapPending, mIsSwapchainOutOfDate >>
plannerVars == << numLeft, calcPos >>
clockVars == << now, g, mTestTime, mFpsTimer >>
vars == << aquariumVars, contextVars, pc, frameNo, plannerVars, clockVars,
          randomSeed, hist >>


(***************************************************************************)
(* ContextDawn: the fish resources.  A pointer or buffer handle is NULL or *)
(* the number of FishPer records (bind groups) it was allocated for.       *)
(***************************************************************************)
\* A plausible slip: the loop runs to the new count, mCurTotalInstance.
SlotsVisitedToCurrent(c) ==
  IF c.bindGroupFishPers = NULL THEN 0
  ELSE IF c.dyn THEN 1
  ELSE IF c.cur > 0 THEN c.cur ELSE 0

\* Bind-group slots the loops of destoryFishResource visit.
SlotsVisited(c) ==
  IF c.bindGroupFishPers = NULL THEN 0
  ELSE IF c.dyn THEN 1
  ELSE IF c.pre > 0 THEN c.pre ELSE 0

\* ContextDawn::destoryFishResource: every handle is dropped.  `slots` is the
\* number of bind-group slots the loop visits; `kept` the bind groups of the
\* old array in slots it does not visit (they keep their reference to the old
\* fish buffer); `arrays` the bind-group arrays dropped by
\* bindGroupFishPers = nullptr with no delete[].
destoryFishResource(c) ==
  [c EXCEPT !.fishPersBuffer = NULL,
            !.stagingBuffer = NULL,
            !.fishPers = NULL,
            !.bindGroupFishPers = NULL,
            !.slots = SlotsVisited(c),
            !.kept = IF c.bindGroupFishPers = NULL THEN 0
                     ELSE IF c.bindGroupFishPers > SlotsVisited(c)
                     THEN c.bindGroupFishPers - SlotsVisited(c) ELSE 0,
            !.arrays = IF c.bindGroupFishPers = NULL THEN 0 ELSE 1]

\* The two early returns of reallocResource.
KeepsBuffer(preTotalInstance, curTotalInstance) ==
  curTotalInstance = 0 \/ preTotalInstance >= curTotalInstance

\* ContextDawn::reallocResource.  replaced counts the release-and-recreate
\* passes of the call; crashed: new FishPer[n] with n < 0 throws.
reallocResource(c, preTotalInstance, curTotalInstance, enableDynamicBufferOffset) ==
  LET c1 == [c EXCEPT !.pre = preTotalInstance,
                      !.cur = curTotalInstance,
                      !.dyn = enableDynamicBufferOffset,
                      !.replaced = 0, !.released = 0, !.slots = 0,
                      !.kept = 0, !.arrays = 0,
                      !.crashed = FALSE]
  IN  IF KeepsBuffer(preTotalInstance, curTotalInstance) THEN c1
      ELSE LET d == [destoryFishResource(c1) EXCEPT !.released = 1]
           IN  IF curTotalInstance < 0 THEN [d EXCEPT !.crashed = TRUE]
               ELSE [d EXCEPT !.fishPers = curTotalInstance,
                              !.bindGroupFishPers =
                                 IF enableDynamicBufferOffset THEN 1
                                 ELSE curTotalInstance,
                              !.fishPersBuffer = curTotalInstance,
                              !.stagingBuffer = curTotalInstance,
                              !.replaced = 1]

\* The context as a record, and back.
ContextRecord ==
  [pre |-> mPreTotalInstance, cur |-> mCurTotalInstance,
   dyn |-> mEnableDynamicBufferOffset,
   fishPers |-> fishPers, bindGroupFishPers |-> bindGroupFishPers,
   fishPersBuffer |-> fishPersBuffer, stagingBuffer |-> stagingBuffer,
   replaced |-> 0, released |-> 0, slots |-> 0, kept |-> 0, arrays |-> 0,
   crashed |-> FALSE]

\* ContextDawn::ContextDawn: every fish handle is nullptr.
ConstructedContext ==
  [pre |-> 0, cur |-> 0, dyn |-> FALSE,
   fishPers |-> NULL, bindGroupFishPers |-> NULL,
   fishPersBuffer |-> NULL, stagingBuffer |-> NULL,
   replaced |-> 0, released |-> 0, slots |-> 0, kept |-> 0, arrays |-> 0,
   crashed |-> FALSE]

\* ContextDawn::initGeneralResources: the first reallocResource and the
\* staging buffer for curFishCount records.
initGeneralResources(preFishCount, curFishCount, enableDynamicBufferOffset) ==
  [reallocResource(ConstructedContext, preFishCount, curFishCount,
                   enableDynamicBufferOffset)
     EXCEPT !.stagingBuffer = curFishCount]

\* Record capacity of a handle.
Capacity(h) == IF h = NULL THEN 0 ELSE h

(***************************************************************************)
(* The behaviour queue (Aquarium::render, the SIMULATINGFISHCOMEANDGO      *)
(* block).  An event is [frame, op, count]; id and k (its position and     *)
(* countdown in the loaded list) are carried along for the history.        *)
(***************************************************************************)
\* A plausible slip: the countdown loses two per step.
DecFrameTwice(frame) == frame - 2

\* behave->setFrame(--frame)
DecFrame(frame) == frame - 1

\* A plausible slip: the newest event is taken.
QueueBack(q) == q[Len(q)]

\* mFishBehavior.front()
QueueFront(q) == Head(q)

\* The count after an event is applied: "+" adds, anything else subtracts.
ApplyOp(cur, behave) ==
  IF behave.op = "+" THEN cur + behave.count ELSE cur - behave.count

RECURSIVE BehaviorDrain(_, _)
\* A plausible slip: a loop instead of an if, every due event popped at once.
BehaviorDrain(q, cur) ==
  IF q = << >> THEN [queue |-> q, count |-> cur, popped |-> << >>]
  ELSE LET behave == QueueFront(q)
       IN  IF behave.frame = 0
           THEN LET r == BehaviorDrain(Tail(q), ApplyOp(cur, behave))
                IN  [r EXCEPT !.popped = << behave >> \o r.popped]
           ELSE [queue |-> << [behave EXCEPT !.frame = DecFrame(behave.frame)] >>
                              \o Tail(q),
                 count |-> cur, popped |-> << >>]

\* A plausible slip: the countdown of every waiting event is decremented.
BehaviorStepAll(q, cur) ==
  IF q = << >> THEN [queue |-> q, count |-> cur, popped |-> << >>]
  ELSE LET behave == QueueFront(q)
       IN  IF behave.frame = 0
           THEN [queue |-> SelectSeq(q, LAMBDA e : e.id # behave.id),
                 count |-> ApplyOp(cur, behave),
                 popped |-> << behave >>]
           ELSE [queue |-> [i \in 1 .. Len(q) |->
                              IF q[i].frame > 0
                              THEN [q[i] EXCEPT !.frame = DecFrame(q[i].frame)]
                              ELSE q[i]],
                 count |-> cur, popped |-> << >>]

\* One behaviour step on a queue q with population target cur.
BehaviorStep(q, cur) ==
  IF q = << >> THEN [queue |-> q, count |-> cur, popped |-> << >>]
  ELSE LET behave == QueueFront(q)
       IN  IF behave.frame = 0
           THEN [queue |-> SelectSeq(q, LAMBDA e : e.id # behave.id),
                 count |-> ApplyOp(cur, behave),
                 popped |-> << behave >>]
           ELSE [queue |-> [i \in 1 .. Len(q) |->
                              IF q[i].id = behave.id
                              THEN [q[i] EXCEPT !.frame = DecFrame(behave.frame)]
                              ELSE q[i]],
                 count |-> cur, popped |-> << >>]

(***************************************************************************)
(* FPSTimer (FPSTimer.cpp).  Frame times are in ticks, FPS values are per  *)
(* second.  Every sample of the model is at least one tick, so the running *)
(* sum stays positive.                                                     *)
(***************************************************************************)
\* FPS_VALID_THRESHOLD of FPSTimer.h.
FPS_VALID_THRESHOLD == 5

\* What a step with undefined behaviour (a write or copy past an array, a
\* call on a null handle) may do: abort the process or carry on.
Outcomes(undefined) == IF undefined THEN {"crash", "continue"} ELSE {"continue"}

RECURSIVE SumSeq(_, _)
\* s[1] + ... + s[n]
SumSeq(s, n) == IF n = 0 THEN 0 ELSE s[n] + SumSeq(s, n - 1)

\* FPSTimer::FPSTimer: a table of 1.0 s samples with its sum, a history of
\* 1.0 FPS and 100.0 ms.
FPSTimer ==
  [mTotalTime |-> NUM_FRAMES_TO_AVERAGE * TicksPerSecond,
   mTimeTable |-> [i \in 1 .. NUM_FRAMES_TO_AVERAGE |-> TicksPerSecond],
   mTimeTableCursor |-> 0,
   mHistoryFPS |-> [i \in 1 .. NUM_HISTORY_DATA |-> 1],
   mHistoryFrameTime |-> [i \in 1 .. NUM_HISTORY_DATA |-> [num |-> 100, den |-> 1]],
   mAverageFPS |-> 0]

\* floor((1.0f / (mTotalTime / NUM_FRAMES_TO_AVERAGE)) + 0.5), for a sum of
\* totalTime ticks.
AverageFPS(totalTime) ==
  (2 * NUM_FRAMES_TO_AVERAGE * TicksPerSecond + totalTime) \div (2 * totalTime)

\* A plausible slip: the oldest sample is not taken out of the sum.
TotalTimeKeepsOldest(t, elapsedTime) == t.mTotalTime + elapsedTime

\* mTotalTime += elapsedTime - mTimeTable[mTimeTableCursor]
TotalTime(t, elapsedTime) ==
  t.mTotalTime + elapsedTime - t.mTimeTable[t.mTimeTableCursor + 1]

\* The largest index the shift loop of update reads: mHistoryFPS[i + 1] for
\* i < NUM_HISTORY_DATA.
ShiftReadIndex == (NUM_HISTORY_DATA - 1) + 1

\* The shift of a history array h and the store of v in its last place; what
\* the loop read at index NUM_HISTORY_DATA is overwritten by the store.
ShiftIn(h, v) ==
  [i \in 1 .. NUM_HISTORY_DATA |-> IF i < NUM_HISTORY_DATA THEN h[i + 1] ELSE v]

\* A plausible slip: the cursor wraps one slot early.
NextCursorWrapsEarly(cursor) ==
  IF cursor + 1 >= NUM_FRAMES_TO_AVERAGE - 1 THEN 0 ELSE cursor + 1

\* ++mTimeTableCursor; if (mTimeTableCursor == NUM_FRAMES_TO_AVERAGE)
\* mTimeTableCursor = 0;
NextCursor(cursor) ==
  IF cursor + 1 = NUM_FRAMES_TO_AVERAGE THEN 0 ELSE cursor + 1

\* FPSTimer::update(elapsedTime, renderingTime, logCount); the last two are
\* not used.
FPSTimerUpdate(t, elapsedTime) ==
  LET total == TotalTime(t, elapsedTime)
      fps == AverageFPS(total)
  IN  [mTotalTime |-> total,
       mTimeTable |-> [t.mTimeTable EXCEPT ![t.mTimeTableCursor + 1] = elapsedTime],
       mTimeTableCursor |-> NextCursor(t.mTimeTableCursor),
       mHistoryFPS |-> ShiftIn(t.mHistoryFPS, fps),
       mHistoryFrameTime |-> ShiftIn(t.mHistoryFrameTime, [num |-> 1000, den |-> fps]),
       mAverageFPS |-> fps]

\* The read of index NUM_HISTORY_DATA in a vector of NUM_HISTORY_DATA
\* elements is past its end.
UpdateUndefined == ShiftReadIndex >= NUM_HISTORY_DATA

RECURSIVE SumSquares(_, _, _)
\* The sum over i <= n of (NUM_HISTORY_DATA * h[i] - sum)^2, which is
\* NUM_HISTORY_DATA^2 times the sum of (h[i] - avg)^2.
SumSquares(h, sum, n) ==
  IF n = 0 THEN 0
  ELSE (NUM_HISTORY_DATA * h[n] - sum) * (NUM_HISTORY_DATA * h[n] - sum)
         + SumSquares(h, sum, n - 1)

\* var < FPS_VALID_THRESHOLD, for var = (sum of (h[i] - avg)^2) / NUM_HISTORY_DATA.
VarianceBelowThreshold(h) ==
  SumSquares(h, SumSeq(h, NUM_HISTORY_DATA), NUM_HISTORY_DATA)
    < FPS_VALID_THRESHOLD * NUM_HISTORY_DATA * NUM_HISTORY_DATA * NUM_HISTORY_DATA

\* ceil(avg) for the history mean avg = sum / NUM_HISTORY_DATA (sum >= 0).
CeilMean(h) ==
  (SumSeq(h, NUM_HISTORY_DATA) + NUM_HISTORY_DATA - 1) \div NUM_HISTORY_DATA

\* FPSTimer::variance
variance(t) ==
  IF VarianceBelowThreshold(t.mHistoryFPS) THEN CeilMean(t.mHistoryFPS) ELSE 0

(***************************************************************************)
(* The clock of the frame loop (Aquarium::getElapsedTime, resetFpsTime).   *)
(***************************************************************************)
\* mTestTime of the constructor: no limit given.
INT_MAX == 2147483647

\* Ticks clock() advances from one frame to the next.
FrameTicks == { TicksPerSecond \div 2 }

\* g_speed and g_eyeSpeed; the eye clock is kept in hundredths of a tick, so
\* that a speed of 0.06 is the integer 6.
g_speed == 1
g_eyeSpeed == 6

\* Aquarium::Aquarium: g.then = 0.0, g.mclock = 0.0, g.eyeClock = 0.0; g.start
\* is first written by resetFpsTime.
ConstructedClock == [then |-> 0, start |-> 0, mclock |-> 0, eyeClock |-> 0]

\* A plausible slip: the clocks are derived from the rendering time
\* g.then - g.start, which restarts with the run-time limit.
AdvanceClocksFromStart(clock, elapsedTime) ==
  [clock EXCEPT !.mclock = (clock.then - clock.start) * g_speed,
                !.eyeClock = (clock.then - clock.start) * g_eyeSpeed]

\* updateGlobalUniforms: g.mclock += elapsedTime * g_speed;
\* g.eyeClock += elapsedTime * g_eyeSpeed.
AdvanceClocks(clock, elapsedTime) ==
  [clock EXCEPT !.mclock = @ + elapsedTime * g_speed,
                !.eyeClock = @ + elapsedTime * g_eyeSpeed]

\* A plausible slip: the first call is not told apart.
getElapsedTimeSinceThen(clock, time) ==
  [elapsedTime |-> time - clock.then,
   g |-> [clock EXCEPT !.then = time]]

\* getElapsedTime: the time since the last call, 0 on a call that finds
\* g.then == 0.0; g.then becomes the present time.
getElapsedTime(clock, time) ==
  [elapsedTime |-> IF clock.then = 0 THEN 0 ELSE time - clock.then,
   g |-> [clock EXCEPT !.then = time]]

\* resetFpsTime: g.start = clock(); g.then = g.start.
resetFpsTime(clock, time) == [clock EXCEPT !.start = time, !.then = time]

\* A plausible slip: the loop ends as soon as the limit is reached.
TestTimeReached(toggles, clock, testTime) ==
  toggles.AUTOSTOP /\ (clock.then - clock.start) >= testTime * TicksPerSecond

\* display(): AUTOSTOP is set and (g.then - g.start) > mTestTime.
TestTimeOver(toggles, clock, testTime) ==
  toggles.AUTOSTOP /\ (clock.then - clock.start) > testTime * TicksPerSecond

(***************************************************************************)
(* Inputs: the command line (--num-fish and the toggles) and the scenario  *)
(* file FishBehavior.json.                                                 *)
(***************************************************************************)
\* Fish come one at a time and go one at a time or BigCount at once.
Events ==
  [frame : 0 .. MaxDelay, op : {"+"}, count : {1}]
    \cup [frame : 0 .. MaxDelay, op : {"-"}, count : {1, BigCount}]

Scenarios == UNION { [1 .. n -> Events] : n \in 0 .. MaxEvents }

\* The toggles init reads or writes.
ToggleNames ==
  {"SIMULATINGFISHCOMEANDGO", "BUFFERMAPPINGASYNC", "ENABLEDYNAMICBUFFEROFFSET",
   "DRAWPERMODEL", "AUTOSTOP", "ENABLEFULLSCREENMODE", "TURNOFFVSYNC",
   "DISABLED3D12RENDERPASS", "DISABLEDAWNVALIDATION", "ENABLEINSTANCEDDRAWS"}

\* The toggleBitset of a constructed Aquarium: nothing is set.
NoToggles == [t \in ToggleNames |-> FALSE]

\* The toggles of a run without --test-time, in a window, with vsync, render
\* pass and validation.
Toggles ==
  { [NoToggles EXCEPT !.SIMULATINGFISHCOMEANDGO = simulate,
                      !.BUFFERMAPPINGASYNC = async,
                      !.ENABLEDYNAMICBUFFEROFFSET = dyn,
                      !.DRAWPERMODEL = batched] :
      simulate \in BOOLEAN, async \in BOOLEAN, dyn \in BOOLEAN, batched \in BOOLEAN }

\* The toggles of a synchronous batched run with dynamic offsets.
PlainToggles ==
  [NoToggles EXCEPT !.ENABLEDYNAMICBUFFEROFFSET = TRUE, !.DRAWPERMODEL = TRUE]

\* --test-time sets AUTOSTOP.
WithTestTime(toggles) == [toggles EXCEPT !.AUTOSTOP = TRUE]

\* Aquarium::loadFishScenario: the events are pushed in file order.
loadFishScenario(scenario) ==
  [i \in 1 .. Len(scenario) |->
     [frame |-> scenario[i].frame, op |-> scenario[i].op,
      count |-> scenario[i].count, id |-> i, k |-> scenario[i].frame]]

\* Aquarium::loadReource: the scenario is loaded only in scripted mode.
loadReource(toggles, scenario) ==
  IF toggles.SIMULATINGFISHCOMEANDGO THEN loadFishScenario(scenario) ELSE << >>

InitHist ==
  [applied |-> << >>,        \* events popped so far, with the frame of the pop
   headSteps |-> 0,          \* behaviour steps the present head has been head for
   headBase |-> 0,           \* population target when the present head became head
   popped |-> 0,             \* events popped by the last behaviour step
   stepped |-> FALSE,        \* the last frame ran a behaviour step
   reallocCalled |-> FALSE,  \* the last render() called reallocResource
   replaced |-> 0,           \* release-and-recreate passes of that call
   reallocCalls |-> 0,       \* calls of reallocResource in the last render()
   realizedBefore |-> 0,     \* mPreFishCount when the last render() began
   capBefore |-> 0,          \* capacity of the record array when it began
   keptGroups |-> 0,         \* bind groups of replaced sets never released
   keptArrays |-> 0,         \* bind-group arrays of replaced sets never deleted
   staleBuffers |-> 0,       \* replaced fish buffers such bind groups still hold
   drawn |-> 0,              \* fish records written and drawn in the frame
   recordsFrame |-> 0,       \* frame whose poses fishPers holds
   mapFrame |-> 0,           \* frame in which the pending mapping was requested
   stagingFrame |-> 0,       \* frame whose poses the staging buffer holds
   uploadFrame |-> 0,        \* frame of the last synchronous SetSubData
   submitted |-> << >>,      \* command buffers of the last Submit of a frame
   submittedFrame |-> 0,     \* frame of that Submit
   sessionStart |-> 0,       \* clock() when init ended
   changeFrame |-> 0,        \* last frame that realized a new total (0: none)
   sampleFrame |-> [i \in 1 .. NUM_HISTORY_DATA |-> 0],
                             \* frame each entry of mHistoryFPS was stored in
                             \* (0: by the constructor)
   elapsed |-> << >>,        \* frame times passed to FPSTimer::update so far
   exit |-> "none",          \* how display() left its loop
   numFish |-> 0,            \* --num-fish of the command line init parsed
   requested |-> {},         \* options of that command line
   available |-> {},         \* toggles the backend reported as available
   contextInitialized |-> FALSE,
                             \* mContext->initialize ran and returned true
   callback |-> [status |-> "none", data |-> NULL],
                             \* arguments of the last call of MapWriteCallback
   historyIndex |-> 0,       \* largest index of mHistoryFPS and
                             \* mHistoryFrameTime the last update used
   drawCalls |-> << >>,      \* indices of mAquariumModels on which the final
                             \* pass of the last updateAndDraw called draw
   firstElapsed |-> NULL,    \* what the first getElapsedTime of init returned
   poses |-> << >>,          \* per-instance records the frame has computed
   preFrame |-> << >>,       \* what the last preFrame did, in order
   recreations |-> 0,        \* recreations of the size-dependent targets
   signals |-> 0,            \* calls of framebufferResizeCallback
   slots |-> 0,              \* bind-group slots the last destoryFishResource
                             \* visited
   arrayLength |-> 0]        \* length of the bind-group array it found

\* A plausible slip: the realized count keeps the constructor's value.
RealizedAfterInitStale(total) == 0

\* init: mPreFishCount = mCurFishCount, after initGeneralResources.
RealizedAfterInit(total) == total

\* The history when init has returned true.
AfterInitHist ==
  [InitHist EXCEPT !.headBase = mCurFishCount, !.sessionStart = now,
                   !.firstElapsed = getElapsedTime(ConstructedClock, now).elapsedTime]

\* The state Aquarium::init leaves behind, for --num-fish total.
AfterInit(total, toggles, scenario) ==
  LET c == initGeneralResources(0, total, toggles.ENABLEDYNAMICBUFFEROFFSET)
  IN  /\ mCurFishCount = total
      /\ mPreFishCount = RealizedAfterInit(total)
      /\ fishCount = calculateFishCount(total, ZeroCounts)
      /\ mFishBehavior = loadReource(toggles, scenario)
      /\ toggleBitset = toggles
      /\ mPreTotalInstance = c.pre
      /\ mCurTotalInstance = c.cur
      /\ mEnableDynamicBufferOffset = c.dyn
      /\ fishPers = c.fishPers
      /\ bindGroupFishPers = c.bindGroupFishPers
      /\ fishPersBuffer = c.fishPersBuffer
      /\ stagingBuffer = c.stagingBuffer
      /\ mappedData = NULL
      /\ mCommandBuffers = << >>
      /\ mapPending = FALSE
      /\ mIsSwapchainOutOfDate = FALSE
      /\ now = 1
      /\ g = resetFpsTime(getElapsedTime(ConstructedClock, now).g, now)
      /\ mFpsTimer = FPSTimer
      /\ randomSeed = 0

Init ==
  /\ \E total \in 0 .. MaxInitFish, toggles \in Toggles, scenario \in Scenarios :
       AfterInit(total, toggles, scenario)
  /\ mTestTime = INT_MAX
  /\ pc = "loop"
  /\ frameNo = 0
  /\ numLeft = 0
  /\ calcPos = 0
  /\ hist = AfterInitHist

(***************************************************************************)
(* matrix::pseudoRandom and the poses of updateAndDraw                     *)
(***************************************************************************)
\* The generator seed' = (multiplier * seed + 1) mod RANDOM_RANGE, with a
\* range of 2^8 in place of 2^32 and the multiplier reduced to match.
RANDOM_RANGE == 256
RandomMultiplier == 5

\* A plausible slip: the generator is not reset.
resetPseudoRandomKeeps(seed) == seed

\* matrix::resetPseudoRandom
resetPseudoRandom(seed) == 0

\* matrix::pseudoRandom: the next seed; the number returned is the seed over
\* RANDOM_RANGE.
pseudoRandom(seed) == (RandomMultiplier * seed + 1) % RANDOM_RANGE

\* The numbers of the five calls of pseudoRandom for one fish: speed, scale,
\* xRadius, yRadius, zRadius.
FishRandoms(seed) ==
  LET speed == pseudoRandom(seed)
      scale == pseudoRandom(speed)
      xRadius == pseudoRandom(scale)
      yRadius == pseudoRandom(xRadius)
      zRadius == pseudoRandom(yRadius)
  IN  << speed, scale, xRadius, yRadius, zRadius >>

\* The loops of updateAndDraw over the fish models and their fish, from fish
\* ii of species slot on: the records (each stands for the pose computed
\* from g.mclock, the species, ii and the five random numbers) and the seed
\* left behind.
RECURSIVE PosesFrom(_, _, _, _, _)
PosesFrom(slot, ii, seed, mclock, counts) ==
  IF slot >= NumSpecies THEN [records |-> << >>, seed |-> seed]
  ELSE IF ii >= counts[slot] THEN PosesFrom(slot + 1, 0, seed, mclock, counts)
  ELSE LET random == FishRandoms(seed)
           rest == PosesFrom(slot, ii + 1, random[5], mclock, counts)
       IN  [records |-> << [species |-> slot, index |-> ii, mclock |-> mclock,
                            random |-> random] >> \o rest.records,
            seed |-> rest.seed]

Poses(seed, mclock, counts) == PosesFrom(0, 0, seed, mclock, counts)

(***************************************************************************)
(* Aquarium::render                                                        *)
(***************************************************************************)
\* Fish records written (and, outside batched mode, drawn) by the loop
\* for (ii = 0; ii < numFish; ++ii) over every species.
RECURSIVE InstancesFrom(_, _)
InstancesFrom(f, n) ==
  IF n < 0 THEN 0
  ELSE (IF f[n] > 0 THEN f[n] ELSE 0) + InstancesFrom(f, n - 1)

Instances(f) == InstancesFrom(f, NumSpecies - 1)

\* The history of the behaviour queue after a step with result r in frame n.
StepHist(h, r, cur, n) ==
  LET rec(e) == [id |-> e.id, k |-> e.k, op |-> e.op, count |-> e.count,
                 frame |-> n, steps |-> h.headSteps, before |-> cur,
                 after |-> ApplyOp(cur, e)]
  IN  [h EXCEPT !.applied = h.applied \o [i \in 1 .. Len(r.popped) |-> rec(r.popped[i])],
                !.popped = Len(r.popped),
                !.stepped = TRUE,
                !.headSteps = IF r.popped # << >> THEN 0
                              ELSE IF r.queue # << >> THEN h.headSteps + 1
                              ELSE 0,
                !.headBase = IF r.popped # << >> THEN r.count ELSE h.headBase]

\* A plausible slip: only a growing target is realized.
TargetGrew(cur, pre) == cur > pre

\* if (mCurFishCount != mPreFishCount)
TargetMoved(cur, pre) == cur # pre

\* The history of the clock and the FPSTimer after frame n took a sample of
\* elapsedTime ticks and, if changed, realized a new total.
ClockHist(h, elapsedTime, changed, n) ==
  [h EXCEPT !.elapsed = Append(@, elapsedTime),
            !.sampleFrame = ShiftIn(@, n),
            !.historyIndex = ShiftReadIndex,
            !.changeFrame = IF changed THEN n ELSE @]

\* A plausible slip: the flag is left set.
preFrameKeepsFlag(outOfDate) ==
  [recreated |-> outOfDate,
   steps |-> IF outOfDate THEN << "recreate", "configure", "acquire" >>
             ELSE << "acquire" >>,
   mIsSwapchainOutOfDate |-> outOfDate]

\* ContextDawn::preFrame: with the flag set, the render target and depth
\* views are recreated, the swapchain is configured and the flag is cleared;
\* then the next texture of the swapchain is acquired.
preFrame(outOfDate) ==
  [recreated |-> outOfDate,
   steps |-> IF outOfDate THEN << "recreate", "configure", "acquire" >>
             ELSE << "acquire" >>,
   mIsSwapchainOutOfDate |-> FALSE]

\* render() up to the call of updateAndDraw: preFrame, updateGlobalUniforms
\* (the clock and the FPSTimer), one behaviour step, and the reallocation
\* when the target moved.
RenderFrame(time) ==
  /\ LET simulate == toggleBitset.SIMULATINGFISHCOMEANDGO
         r == IF simulate THEN BehaviorStep(mFishBehavior, mCurFishCount)
              ELSE [queue |-> mFishBehavior, count |-> mCurFishCount, popped |-> << >>]
         changed == TargetMoved(r.count, mPreFishCount)
         c == IF changed
              THEN reallocResource(ContextRecord, mPreFishCount, r.count,
                                   toggleBitset.ENABLEDYNAMICBUFFEROFFSET)
              ELSE ContextRecord
         h0 == IF simulate THEN StepHist(hist, r, mCurFishCount, frameNo + 1)
               ELSE [hist EXCEPT !.popped = 0, !.stepped = FALSE]
         e == getElapsedTime(g, time)
         h1 == ClockHist(h0, e.elapsedTime, changed /\ ~c.crashed, frameNo + 1)
         p == preFrame(mIsSwapchainOutOfDate)
     IN  /\ frameNo' = frameNo + 1
         /\ randomSeed' = resetPseudoRandom(randomSeed)
         /\ mIsSwapchainOutOfDate' = p.mIsSwapchainOutOfDate
         /\ now' = time
         /\ mFpsTimer' = FPSTimerUpdate(mFpsTimer, e.elapsedTime)
         /\ g' = IF changed /\ ~c.crashed
                 THEN resetFpsTime(AdvanceClocks(e.g, e.elapsedTime), time)
                 ELSE AdvanceClocks(e.g, e.elapsedTime)
         /\ mFishBehavior' = r.queue
         /\ mCurFishCount' = r.count
         /\ fishCount' = IF changed THEN calculateFishCount(r.count, fishCount)
                         ELSE fishCount
         /\ mPreFishCount' = IF changed /\ ~c.crashed THEN r.count ELSE mPreFishCount
         /\ mPreTotalInstance' = c.pre
         /\ mCurTotalInstance' = c.cur
         /\ mEnableDynamicBufferOffset' = c.dyn
         /\ fishPers' = c.fishPers
         /\ bindGroupFishPers' = c.bindGroupFishPers
         /\ fishPersBuffer' = c.fishPersBuffer
         /\ stagingBuffer' = c.stagingBuffer
         /\ hist' = [h1 EXCEPT !.reallocCalled = changed, !.replaced = c.replaced,
                               !.reallocCalls = IF changed THEN 1 ELSE 0,
                               !.realizedBefore = mPreFishCount,
                               !.capBefore = Capacity(fishPers),
                               !.keptGroups = @ + c.kept,
                               !.keptArrays = @ + c.arrays,
                               !.staleBuffers = @ + (IF c.kept > 0 THEN 1 ELSE 0),
                               !.drawn = 0, !.poses = << >>,
                               !.preFrame = p.steps,
                               !.slots = IF c.released = 1 THEN c.slots ELSE @,
                               !.arrayLength = IF c.released = 1
                                               THEN Capacity(bindGroupFishPers)
                                               ELSE @,
                               !.recreations = @ + (IF p.recreated THEN 1 ELSE 0)]
         /\ pc' = IF c.crashed THEN "crashed" ELSE "updateAndDraw"
  /\ UNCHANGED << toggleBitset, mappedData, mCommandBuffers, mapPending,
                  plannerVars, mTestTime >>

\* One pass of the loop of display() up to updateAndDraw; the read past the
\* end of the history in FPSTimer::update may abort the process.
Render ==
  /\ pc = "loop"
  /\ frameNo < MaxFrames
  /\ \E time \in { now + d : d \in FrameTicks }, outcome \in Outcomes(UpdateUndefined) :
       IF outcome = "crash"
       THEN /\ pc' = "crashed"
            /\ UNCHANGED << aquariumVars, contextVars, frameNo, randomSeed, plannerVars,
                            clockVars, hist >>
       ELSE RenderFrame(time)

\* A plausible slip: the quit request is also honoured inside a frame.
AtLoopHeadOrInFrame(p) == p \in {"loop", "updateAndDraw"}

\* while (!mContext->ShouldQuit()): the test is made at the head of the loop.
AtLoopHead(p) == p = "loop"

\* display(): ShouldQuit() holds at the head of the loop.
Quit ==
  /\ AtLoopHead(pc)
  /\ pc' = "terminated"
  /\ hist' = [hist EXCEPT !.exit = "quit"]
  /\ UNCHANGED << aquariumVars, contextVars, frameNo, randomSeed, plannerVars, clockVars >>

(***************************************************************************)
(* Aquarium::updateAndDraw and ContextDawn::updateAllFishData              *)
(***************************************************************************)
\* setBufferData(fishPersBuffer, 0, sizeof(FishPer) * mCurTotalInstance, fishPers)
\* is a write Dawn accepts.
SetSubDataValid ==
  /\ fishPersBuffer # NULL
  /\ mCurTotalInstance >= 0
  /\ mCurTotalInstance <= Capacity(fishPersBuffer)
  /\ mCurTotalInstance <= Capacity(fishPers)

\* Static models of the scene.
NumStaticModels == 2

\* enum MODELNAME: the static models, the fish models in the order of the
\* species table, their instanced-draw variants, and MODELMAX, the size of
\* mAquariumModels.
MODELRUINCOLUMN == 0
MODELSEAWEEDB == MODELRUINCOLUMN + NumStaticModels - 1
MODELSMALLFISHA == MODELSEAWEEDB + 1
MODELBIGFISHB == MODELSMALLFISHA + NumSpecies - 1
MODELSMALLFISHAINSTANCEDDRAWS == MODELBIGFISHB + 1
MODELBIGFISHBINSTANCEDDRAWS == MODELSMALLFISHAINSTANCEDDRAWS + NumSpecies - 1
MODELMAX == MODELBIGFISHBINSTANCEDDRAWS + 1

\* g_sceneInfo: the MODELGROUP of a model name; only the two fish groups are
\* told apart here.
ModelGroup(i) ==
  IF i >= MODELSMALLFISHA /\ i <= MODELBIGFISHB THEN "FISH"
  ELSE IF i >= MODELSMALLFISHAINSTANCEDDRAWS /\ i <= MODELBIGFISHBINSTANCEDDRAWS
  THEN "FISHINSTANCEDDRAW"
  ELSE "STATIC"

\* Aquarium::loadModels: the entries of mAquariumModels that hold a model.
loadModels(toggles) ==
  { i \in 0 .. MODELMAX - 1 :
      ~ \/ toggles.ENABLEINSTANCEDDRAWS /\ ModelGroup(i) = "FISH"
        \/ ~toggles.ENABLEINSTANCEDDRAWS /\ ModelGroup(i) = "FISHINSTANCEDDRAW" }

\* updateAndDraw: the range of the fish models in use.
FishBegin(toggles) ==
  IF toggles.ENABLEINSTANCEDDRAWS THEN MODELSMALLFISHAINSTANCEDDRAWS
  ELSE MODELSMALLFISHA

FishEnd(toggles) ==
  IF toggles.ENABLEINSTANCEDDRAWS THEN MODELBIGFISHBINSTANCEDDRAWS
  ELSE MODELBIGFISHB

\* A plausible slip: the test of the fish range stops below MODELMAX.
SkipsModelBelowMax(i, fishBegin, fishEnd) ==
  i >= MODELSMALLFISHA /\ i < MODELMAX /\ (i < fishBegin \/ i > fishEnd)

\* The continue of the final pass.
SkipsModel(i, fishBegin, fishEnd) ==
  i >= MODELSMALLFISHA /\ (i < fishBegin \/ i > fishEnd)

\* The final pass of batched mode from index i on:
\* for (i = 0; i <= MODELMAX; ++i) mAquariumModels[i]->draw() unless skipped.
RECURSIVE DrawPassFrom(_, _)
DrawPassFrom(i, toggles) ==
  IF i > MODELMAX THEN << >>
  ELSE IF SkipsModel(i, FishBegin(toggles), FishEnd(toggles))
  THEN DrawPassFrom(i + 1, toggles)
  ELSE << i >> \o DrawPassFrom(i + 1, toggles)

DrawPass(toggles) ==
  IF toggles.DRAWPERMODEL THEN DrawPassFrom(0, toggles) ELSE << >>

UpdateAndDraw ==
  /\ pc = "updateAndDraw"
  /\ LET n == Instances(fishCount)
         batched == toggleBitset.DRAWPERMODEL
         async == toggleBitset.BUFFERMAPPINGASYNC
         sync == batched /\ ~async
         undefined == n > Capacity(fishPers) \/ (sync /\ ~SetSubDataValid)
     IN  \E outcome \in Outcomes(undefined) :
           /\ pc' = IF outcome = "crash" THEN "crashed" ELSE "doFlush"
           /\ mapPending' = IF batched /\ async THEN TRUE ELSE mapPending
           /\ randomSeed' = Poses(randomSeed, g.mclock, fishCount).seed
           /\ hist' = [hist EXCEPT
                         !.drawn = n,
                         !.poses = Poses(randomSeed, g.mclock, fishCount).records,
                         !.recordsFrame = frameNo,
                         !.drawCalls = DrawPass(toggleBitset),
                         !.mapFrame = IF batched /\ async THEN frameNo ELSE @,
                         !.uploadFrame = IF sync /\ SetSubDataValid THEN frameNo ELSE @]
  /\ UNCHANGED << aquariumVars, mPreTotalInstance, mCurTotalInstance,
                  mEnableDynamicBufferOffset, fishPers, bindGroupFishPers,
                  fishPersBuffer, stagingBuffer, mIsSwapchainOutOfDate, mappedData, mCommandBuffers,
                  frameNo, plannerVars, clockVars >>

(***************************************************************************)
(* ContextDawn::DoFlush, WaitABit, MapWriteCallback, Flush                 *)
(***************************************************************************)
\* A plausible slip: the wait for the mapping is left out.
MayFlushNoWait(async, mapped) == TRUE

\* DoFlush may go on to Flush(): the while loop on mappedData has ended.
MayFlush(async, mapped) == ~async \/ mapped # NULL

\* mRenderPass.EndPass(); cmd = mCommandEncoder.Finish(); emplace_back(cmd)
FinishFrame(buffers, n) == Append(buffers, [kind |-> "render", frame |-> n])

\* MapWriteCallback: mCommandBuffers.emplace_back(command)
CopyLast(buffers, n) == Append(buffers, [kind |-> "copy", frame |-> n])

\* Flush(): queue.Submit and clear, recorded in the history.
Submit(h, buffers, n) == [h EXCEPT !.submitted = buffers, !.submittedFrame = n]

\* DoFlush up to the wait loop.
DoFlushBegin ==
  /\ pc = "doFlush"
  /\ mCommandBuffers' = FinishFrame(mCommandBuffers, frameNo)
  /\ pc' = "wait"
  /\ UNCHANGED << aquariumVars, mPreTotalInstance, mCurTotalInstance,
                  mEnableDynamicBufferOffset, fishPers, bindGroupFishPers,
                  fishPersBuffer, stagingBuffer, mIsSwapchainOutOfDate, mappedData, mapPending,
                  frameNo, randomSeed, plannerVars, clockVars, hist >>

\* WaitABit(): mDevice.Tick() with no mapping completing.
WaitABit ==
  /\ pc = "wait"
  /\ ~MayFlush(toggleBitset.BUFFERMAPPINGASYNC, mappedData)
  /\ UNCHANGED vars

\* The status Dawn passes to the callback: success, or anything else.
MapAsyncStatus == {"SUCCESS", "ERROR"}

\* The pointer Dawn passes to the callback: nullptr, or the mapped range.
MappedRanges == {NULL, 1}

\* ASSERT(condition): a failed assertion is fatal.
ASSERT(condition) == IF condition THEN "continue" ELSE "crash"

\* A plausible slip: only the pointer is asserted.
MapWriteChecksData(status, data) == data # NULL

\* What MapWriteCallback asserts of its arguments.
MapWriteChecks(status, data) == status = "SUCCESS" /\ data # NULL

\* WaitABit(): mDevice.Tick() completes the pending mapping and Dawn calls
\* MapWriteCallback(status, data, ...).
MapWriteCallback ==
  /\ pc = "wait"
  /\ ~MayFlush(toggleBitset.BUFFERMAPPINGASYNC, mappedData)
  /\ mapPending
  /\ \E status \in MapAsyncStatus, data \in MappedRanges :
       IF ASSERT(MapWriteChecks(status, data)) = "crash"
       THEN /\ pc' = "crashed"
            /\ hist' = [hist EXCEPT !.callback = [status |-> status, data |-> data]]
            /\ UNCHANGED << mappedData, mapPending, mCommandBuffers >>
       ELSE LET size == mCurTotalInstance
                undefined == \/ size < 0
                             \/ size > Capacity(fishPers)
                             \/ size > Capacity(stagingBuffer)
                             \/ fishPersBuffer = NULL
            IN  \E outcome \in Outcomes(undefined) :
                  /\ pc' = IF outcome = "crash" THEN "crashed" ELSE "wait"
                  /\ mappedData' = data
                  /\ mapPending' = FALSE
                  /\ mCommandBuffers' = CopyLast(mCommandBuffers, hist.mapFrame)
                  /\ hist' = [hist EXCEPT
                                !.stagingFrame = hist.recordsFrame,
                                !.callback = [status |-> status, data |-> data]]
  /\ UNCHANGED << aquariumVars, mPreTotalInstance, mCurTotalInstance,
                  mEnableDynamicBufferOffset, fishPers, bindGroupFishPers,
                  fishPersBuffer, stagingBuffer, mIsSwapchainOutOfDate, frameNo, randomSeed, plannerVars, clockVars >>

\* DoFlush after the wait loop: unmap, Flush(), Present, glfwPollEvents.
DoFlushEnd ==
  /\ pc = "wait"
  /\ MayFlush(toggleBitset.BUFFERMAPPINGASYNC, mappedData)
  /\ mappedData' = IF toggleBitset.BUFFERMAPPINGASYNC THEN NULL ELSE mappedData
  /\ hist' = Submit(hist, mCommandBuffers, frameNo)
  /\ mCommandBuffers' = << >>
  /\ pc' = "testTime"
  /\ UNCHANGED << aquariumVars, mPreTotalInstance, mCurTotalInstance,
                  mEnableDynamicBufferOffset, fishPers, bindGroupFishPers,
                  fishPersBuffer, stagingBuffer, mIsSwapchainOutOfDate, mapPending, frameNo, randomSeed, plannerVars,
                  clockVars >>

\* display(): the test of the run-time limit after DoFlush; break or go round.
TestTime ==
  /\ pc = "testTime"
  /\ IF TestTimeOver(toggleBitset, g, mTestTime)
     THEN pc' = "terminated" /\ hist' = [hist EXCEPT !.exit = "testTime"]
     ELSE pc' = "loop" /\ UNCHANGED hist
  /\ UNCHANGED << aquariumVars, contextVars, frameNo, randomSeed, plannerVars, clockVars >>

\* Resize signals in one run.
MaxResizes == 2

\* ContextDawn::framebufferResizeCallback, called by GLFW from the
\* glfwPollEvents that ends DoFlush.
framebufferResizeCallback ==
  /\ pc = "testTime"
  /\ hist.signals < MaxResizes
  /\ mIsSwapchainOutOfDate' = TRUE
  /\ hist' = [hist EXCEPT !.signals = @ + 1]
  /\ UNCHANGED << aquariumVars, mPreTotalInstance, mCurTotalInstance,
                  mEnableDynamicBufferOffset, fishPers, bindGroupFishPers,
                  fishPersBuffer, stagingBuffer, mappedData, mCommandBuffers,
                  mapPending, pc, frameNo, randomSeed, plannerVars, clockVars >>

Next ==
  \/ Render
  \/ Quit
  \/ UpdateAndDraw
  \/ DoFlushBegin
  \/ WaitABit
  \/ MapWriteCallback
  \/ DoFlushEnd
  \/ TestTime

Spec == Init /\ [][Next]_vars

(***************************************************************************)
(* SpecSteady: the frame loop without a scenario (scripted mode off): the  *)
(* population stays at --num-fish.                                         *)
(***************************************************************************)
InitSteady ==
  /\ \E total \in 0 .. MaxInitFish, toggles \in Toggles :
       /\ ~toggles.SIMULATINGFISHCOMEANDGO
       /\ AfterInit(total, toggles, << >>)
  /\ mTestTime = INT_MAX
  /\ pc = "loop"
  /\ frameNo = 0
  /\ numLeft = 0
  /\ calcPos = 0
  /\ hist = AfterInitHist

SpecSteady == InitSteady /\ [][Next]_vars

(***************************************************************************)
(* SpecResize: the frame loop without a scenario, with the window resized  *)
(* between frames.                                                         *)
(***************************************************************************)
NextResize == Next \/ framebufferResizeCallback

SpecResize == InitSteady /\ [][NextResize]_vars

(***************************************************************************)
(* SpecClock: the frame loop started with --test-time, from --num-fish     *)
(* MaxInitFish and a scenario of at most one event.                        *)
(***************************************************************************)
InitClock ==
  /\ \E toggles \in Toggles, scenario \in Scenarios :
       /\ Len(scenario) <= 1
       /\ AfterInit(MaxInitFish, WithTestTime(toggles), scenario)
  /\ mTestTime \in 0 .. MaxTestTime
  /\ pc = "loop"
  /\ frameNo = 0
  /\ numLeft = 0
  /\ calcPos = 0
  /\ hist = AfterInitHist

SpecClock == InitClock /\ [][Next]_vars

(***************************************************************************)
(* SpecTimer: a fresh FPSTimer and a sequence of calls of update.          *)
(***************************************************************************)
\* The frame times fed to the timer: short, three times as long, a whole second.
ElapsedTimes == {1, 3, TicksPerSecond}

InitTimer ==
  /\ AfterInit(MaxInitFish, PlainToggles, << >>)
  /\ mTestTime = INT_MAX
  /\ pc = "timer"
  /\ frameNo = 0
  /\ numLeft = 0
  /\ calcPos = 0
  /\ hist = AfterInitHist

\* mFpsTimer.update(elapsedTime, renderingTime, mTestTime)
TimerUpdate ==
  /\ pc = "timer"
  /\ Len(hist.elapsed) < MaxUpdates
  /\ \E elapsedTime \in ElapsedTimes, outcome \in Outcomes(UpdateUndefined) :
       IF outcome = "crash"
       THEN pc' = "crashed" /\ UNCHANGED << mFpsTimer, hist >>
       ELSE /\ mFpsTimer' = FPSTimerUpdate(mFpsTimer, elapsedTime)
            /\ hist' = ClockHist(hist, elapsedTime, FALSE, Len(hist.elapsed) + 1)
            /\ pc' = pc
  /\ UNCHANGED << aquariumVars, contextVars, frameNo, randomSeed, plannerVars,
                  now, g, mTestTime >>

NextTimer == TimerUpdate

SpecTimer == InitTimer /\ [][NextTimer]_vars

(***************************************************************************)
(* SpecPlanner: calculateFishCount, one species per step.                  *)
(***************************************************************************)
PlannerTotals ==
  (0 .. MaxPlannerTotal)
    \cup { g_numFishMedium - 1, g_numFishMedium, g_numFishMedium + 1,
           g_numFishBig - 1, g_numFishBig, g_numFishBig + 1, 3 * g_numFishBig }

InitPlanner ==
  /\ \E total \in PlannerTotals :
       /\ AfterInit(total, PlainToggles, << >>)
       /\ numLeft = total
  /\ mTestTime = INT_MAX
  /\ pc = "calc"
  /\ frameNo = 0
  /\ calcPos = 1
  /\ hist = AfterInitHist

\* One pass of the loop body of calculateFishCount.
CalcStep ==
  /\ pc = "calc"
  /\ calcPos <= Len(ServeOrder)
  /\ LET r == CalcIteration(calcPos, mCurFishCount, numLeft, fishCount)
     IN  /\ numLeft' = r.numLeft
         /\ fishCount' = r.fishCount
  /\ calcPos' = calcPos + 1
  /\ pc' = IF calcPos = Len(ServeOrder) THEN "calcDone" ELSE "calc"
  /\ UNCHANGED << mCurFishCount, mPreFishCount, mFishBehavior, toggleBitset,
                  contextVars, frameNo, randomSeed, clockVars, hist >>

NextPlanner == CalcStep

SpecPlanner == InitPlanner /\ [][NextPlanner]_vars

(***************************************************************************)
(* Aquarium::init on a constructed Aquarium.                               *)
(***************************************************************************)
\* Options on one command line.
MaxOptions == 2

\* mCurFishCount of a constructed Aquarium.
DefaultFishCount == 500

\* The option blocks of init in the order of the code: the option, the toggle
\* it writes, the value written, and whether the block tests the toggle's
\* availability first.
OptionSteps ==
  << [option |-> "buffer-mapping-async", toggle |-> "BUFFERMAPPINGASYNC",
      value |-> TRUE, checked |-> TRUE],
     [option |-> "disable-d3d12-render-pass", toggle |-> "DISABLED3D12RENDERPASS",
      value |-> TRUE, checked |-> TRUE],
     [option |-> "disable-dawn-validation", toggle |-> "DISABLEDAWNVALIDATION",
      value |-> TRUE, checked |-> TRUE],
     [option |-> "disable-dynamic-buffer-offset",
      toggle |-> "ENABLEDYNAMICBUFFEROFFSET", value |-> FALSE, checked |-> TRUE],
     [option |-> "enable-full-screen-mode", toggle |-> "ENABLEFULLSCREENMODE",
      value |-> TRUE, checked |-> TRUE],
     [option |-> "simulating-fish-come-and-go",
      toggle |-> "SIMULATINGFISHCOMEANDGO", value |-> TRUE, checked |-> TRUE],
     [option |-> "test-time", toggle |-> "AUTOSTOP",
      value |-> TRUE, checked |-> FALSE],
     [option |-> "turn-off-vsync", toggle |-> "TURNOFFVSYNC",
      value |-> TRUE, checked |-> TRUE] >>

OptionNames == { OptionSteps[k].option : k \in 1 .. Len(OptionSteps) }

\* Toggles whose availability some option block tests.
CheckedToggles ==
  { OptionSteps[k].toggle : k \in { j \in 1 .. Len(OptionSteps) : OptionSteps[j].checked } }

\* ContextDawn::initAvailableToggleBitset, restricted to ToggleNames.
DawnAvailable ==
  {"ENABLEDYNAMICBUFFEROFFSET", "ENABLEFULLSCREENMODE", "BUFFERMAPPINGASYNC"}

\* What getAvailableToggleBitset may return: Dawn's set, and for the other
\* backends nothing, everything, and everything but one tested toggle.
AvailableSets ==
  {DawnAvailable, {}, ToggleNames} \cup { ToggleNames \ {t} : t \in CheckedToggles }

\* The test an option block makes before it writes its toggle.
SupportedUnchecked(step, availableToggleBitset) == TRUE

Supported(step, availableToggleBitset) ==
  ~step.checked \/ step.toggle \in availableToggleBitset

\* The toggles init sets before it looks at the options.
DefaultToggles(availableToggleBitset) ==
  [NoToggles EXCEPT
     !.DRAWPERMODEL = "DRAWPERMODEL" \in availableToggleBitset,
     !.ENABLEDYNAMICBUFFEROFFSET = "ENABLEDYNAMICBUFFEROFFSET" \in availableToggleBitset]

\* The option blocks from block k on: ok is false when a block returned
\* false, and toggleBitset is what had been written by then.
RECURSIVE ParseFrom(_, _, _, _)
ParseFrom(k, requested, availableToggleBitset, toggles) ==
  IF k > Len(OptionSteps) THEN [ok |-> TRUE, toggleBitset |-> toggles]
  ELSE LET step == OptionSteps[k]
       IN  IF step.option \notin requested
           THEN ParseFrom(k + 1, requested, availableToggleBitset, toggles)
           ELSE IF ~Supported(step, availableToggleBitset)
           THEN [ok |-> FALSE, toggleBitset |-> toggles]
           ELSE ParseFrom(k + 1, requested, availableToggleBitset,
                          [toggles EXCEPT ![step.toggle] = step.value])

ParseOptions(requested, availableToggleBitset) ==
  ParseFrom(1, requested, availableToggleBitset, DefaultToggles(availableToggleBitset))

\* Aquarium::Aquarium and ContextDawn::ContextDawn.
InitConstructed ==
  /\ mCurFishCount = DefaultFishCount
  /\ mPreFishCount = 0
  /\ fishCount = ZeroCounts
  /\ mFishBehavior = << >>
  /\ toggleBitset = NoToggles
  /\ mPreTotalInstance = ConstructedContext.pre
  /\ mCurTotalInstance = ConstructedContext.cur
  /\ mEnableDynamicBufferOffset = ConstructedContext.dyn
  /\ fishPers = ConstructedContext.fishPers
  /\ bindGroupFishPers = ConstructedContext.bindGroupFishPers
  /\ fishPersBuffer = ConstructedContext.fishPersBuffer
  /\ stagingBuffer = ConstructedContext.stagingBuffer
  /\ mappedData = NULL
  /\ mCommandBuffers = << >>
  /\ mapPending = FALSE
  /\ mIsSwapchainOutOfDate = FALSE
  /\ now = 0
  /\ g = ConstructedClock
  /\ randomSeed = 0
  /\ mTestTime = INT_MAX
  /\ mFpsTimer = FPSTimer
  /\ pc = "start"
  /\ frameNo = 0
  /\ numLeft = 0
  /\ calcPos = 0
  /\ hist = InitHist

\* Aquarium::init(argc, argv): the command line is --num-fish numFish, the
\* options requested and, with --test-time, testTime; the backend reports
\* availableToggleBitset and its initialize returns initialized.
InitCall ==
  /\ pc = "start"
  /\ \E numFish \in 0 .. MaxInitFish,
        requested \in { r \in SUBSET OptionNames : Cardinality(r) <= MaxOptions },
        availableToggleBitset \in AvailableSets,
        initialized \in BOOLEAN :
       \E testTime \in (IF "test-time" \in requested THEN 0 .. MaxTestTime ELSE {INT_MAX}) :
         LET r == ParseOptions(requested, availableToggleBitset)
             c == initGeneralResources(0, numFish, r.toggleBitset.ENABLEDYNAMICBUFFEROFFSET)
             h == [InitHist EXCEPT !.numFish = numFish, !.requested = requested,
                                   !.available = availableToggleBitset]
         IN  /\ mCurFishCount' = numFish
             /\ mTestTime' = testTime
             /\ toggleBitset' = r.toggleBitset
             /\ IF ~r.ok \/ ~initialized
                THEN /\ pc' = "initFailed"
                     /\ hist' = h
                     /\ UNCHANGED << mPreFishCount, fishCount, mFishBehavior,
                                     contextVars, now, g, mFpsTimer >>
                ELSE /\ fishCount' = calculateFishCount(numFish, ZeroCounts)
                     /\ mPreTotalInstance' = c.pre
                     /\ mCurTotalInstance' = c.cur
                     /\ mEnableDynamicBufferOffset' = c.dyn
                     /\ fishPers' = c.fishPers
                     /\ bindGroupFishPers' = c.bindGroupFishPers
                     /\ fishPersBuffer' = c.fishPersBuffer
                     /\ stagingBuffer' = c.stagingBuffer
                     /\ mPreFishCount' = RealizedAfterInit(numFish)
                     /\ \E scenario \in { sc \in Scenarios : Len(sc) <= 1 } :
                          mFishBehavior' = loadReource(r.toggleBitset, scenario)
                     /\ now' = 1
                     /\ g' = resetFpsTime(getElapsedTime(g, now').g, now')
                     /\ mFpsTimer' = mFpsTimer
                     /\ UNCHANGED << mappedData, mCommandBuffers, mapPending,
                                     mIsSwapchainOutOfDate >>
                     /\ pc' = "loop"
                     /\ hist' = [h EXCEPT !.headBase = numFish, !.sessionStart = now',
                                          !.contextInitialized = TRUE,
                                          !.firstElapsed =
                                             getElapsedTime(g, now').elapsedTime]
  /\ UNCHANGED << frameNo, randomSeed, plannerVars >>

NextInit == InitCall

SpecInit == InitConstructed /\ [][NextInit]_vars

(***************************************************************************)
(* Helpers of the properties.                                              *)
(***************************************************************************)
\* Positions of the command buffers of a kind and frame in a list.
Positions(buffers, kind, n) ==
  { i \in 1 .. Len(buffers) : buffers[i].kind = kind /\ buffers[i].frame = n }

Copies(buffers) == { i \in 1 .. Len(buffers) : buffers[i].kind = "copy" }

Batched == toggleBitset.DRAWPERMODEL
Async == toggleBitset.BUFFERMAPPINGASYNC

(***************************************************************************)
(* Properties.                                                             *)
(***************************************************************************)
\* C1: for every total T >= 0, when calculateFishCount has run with
\* mCurFishCount = T the per-species counts in fishCount sum to T.
C1_SumIsTotal ==
  (pc = "calcDone" /\ mCurFishCount >= 0) => SumFishCount(fishCount) = mCurFishCount

\* C1 witness: a run for a total above every threshold has finished, with the
\* MEDIUM species at their large fixed count.
C1_Witness ==
  /\ pc = "calcDone"
  /\ mCurFishCount > g_numFishBig
  /\ fishCount[1] = g_numFishLeftBig
  /\ fishCount[0] > 0

\* C2: in every frame the number of fish records written and drawn does not
\* exceed the capacity of the record array, of the fish buffer and (one bind
\* group per instance) of the bind-group array that are live at the draw.
C2_DrawWithinCapacity ==
  /\ hist.drawn <= Capacity(fishPers)
  /\ hist.drawn <= Capacity(fishPersBuffer)
  /\ ~mEnableDynamicBufferOffset => hist.drawn <= Capacity(bindGroupFishPers)

\* C3: a call reallocResource(prev, new, mode) replaces nothing when
\* new <= prev and does exactly one release-and-recreate when new > prev.
C3_ReplaceIffGrow ==
  hist.reallocCalled =>
    hist.replaced = (IF mCurTotalInstance > mPreTotalInstance THEN 1 ELSE 0)

\* C4: with async upload, a frame's command list is submitted only after the
\* mapping requested in that frame has completed and its copy command is in
\* that same list; no copy command waits for a later frame or is dropped.
C4_SubmitAfterCopy ==
  Async =>
    /\ hist.submittedFrame > 0 =>
         /\ Cardinality(Positions(hist.submitted, "copy", hist.submittedFrame)) = 1
         /\ Copies(hist.submitted) = Positions(hist.submitted, "copy", hist.submittedFrame)
    /\ Copies(mCommandBuffers) = Positions(mCommandBuffers, "copy", frameNo)
    /\ pc \in {"loop", "terminated"} => ~mapPending /\ mCommandBuffers = << >>

\* C4 witness: the second frame has been submitted with its copy command.
C4_Witness ==
  /\ Async
  /\ pc = "loop"
  /\ hist.submittedFrame = 2
  /\ Positions(hist.submitted, "copy", 2) # {}
  /\ hist.drawn > 0

\* C5: in batched mode the upload of frame N's records comes before the
\* command buffer with frame N's draws in the list submitted for frame N
\* (async: the copy command; otherwise the write made before the Submit).
C5_UploadBeforeDraws ==
  (Batched /\ hist.submittedFrame > 0 /\ hist.submittedFrame = frameNo /\ hist.drawn > 0) =>
    IF Async
    THEN \E i \in Positions(hist.submitted, "copy", frameNo) :
           \E j \in Positions(hist.submitted, "render", frameNo) : i < j
    ELSE hist.uploadFrame = frameNo

\* C6: the records of frame N+1 are written, and its mapping requested, only
\* after frame N's list was submitted; the callback copies into the staging
\* buffer the records written in the frame that requested the mapping.
C6_NoWriteBeforeSubmit ==
  /\ hist.recordsFrame <= hist.submittedFrame + 1
  /\ hist.recordsFrame >= hist.submittedFrame
  /\ mapPending => hist.mapFrame = hist.submittedFrame + 1 /\ hist.mapFrame = frameNo
  /\ mappedData # NULL => hist.stagingFrame = frameNo /\ hist.mapFrame = frameNo
  /\ hist.stagingFrame > 0 => hist.stagingFrame <= hist.mapFrame

\* C6 witness: in the second frame the callback has copied that frame's records.
C6_Witness ==
  /\ frameNo = 2
  /\ mappedData # NULL
  /\ hist.stagingFrame = 2
  /\ hist.submittedFrame = 1
  /\ hist.drawn > 0

\* C7: behaviour events are popped and applied in the order they were loaded.
C7_AppliedInOrder ==
  /\ \A i \in 1 .. Len(hist.applied) : hist.applied[i].id = i
  /\ \A i \in 1 .. Len(mFishBehavior) : mFishBehavior[i].id = Len(hist.applied) + i

\* C7 witness: two events applied, the first with a longer countdown than the
\* second.
C7_Witness ==
  /\ Len(hist.applied) = 2
  /\ hist.applied[1].k > hist.applied[2].k

\* C8: a frame pops at most one event; an event with countdown 0 behind
\* another one is applied in the frame right after it.
C8_OnePerFrame ==
  /\ hist.popped <= 1
  /\ \A i \in 1 .. (Len(hist.applied) - 1) :
       /\ hist.applied[i].frame < hist.applied[i + 1].frame
       /\ hist.applied[i + 1].k = 0 =>
            hist.applied[i + 1].frame = hist.applied[i].frame + 1

\* C8 witness: two events of countdown 0 applied in frames 1 and 2.
C8_Witness ==
  /\ Len(hist.applied) = 2
  /\ hist.applied[1].k = 0 /\ hist.applied[2].k = 0
  /\ hist.applied[1].frame = 1 /\ hist.applied[2].frame = 2

\* C9: an event that becomes head with countdown k >= 0 loses 1 per step for
\* k steps while the target stays put, and is popped and applied by the step
\* after those k steps.
C9_CountdownExact ==
  /\ mFishBehavior # << >> =>
       /\ Head(mFishBehavior).frame = Head(mFishBehavior).k - hist.headSteps
       /\ Head(mFishBehavior).frame >= 0
       /\ mCurFishCount = hist.headBase
  /\ \A i \in 1 .. Len(hist.applied) :
       LET a == hist.applied[i]
           since == IF i = 1 THEN 0 ELSE hist.applied[i - 1].frame
       IN  /\ a.steps = a.k
           /\ a.frame = since + a.k + 1
           /\ a.after = (IF a.op = "+" THEN a.before + a.count ELSE a.before - a.count)
  /\ hist.applied # << >> /\ mFishBehavior # << >> =>
       hist.headBase = hist.applied[Len(hist.applied)].after

\* C9 witness: an event with a countdown of at least 1 was applied behind
\* another event.
C9_Witness ==
  /\ Len(hist.applied) = 2
  /\ hist.applied[2].k >= 1
  /\ hist.applied[2].steps = hist.applied[2].k

\* C10: the population target is never negative.
C10_TargetNonNegative == mCurFishCount >= 0

\* The last render() got as far as the call of updateAndDraw.
ReachedDraw ==
  /\ frameNo > 0
  /\ pc \notin {"calc", "calcDone", "timer"}
  /\ pc = "crashed" => hist.recordsFrame = frameNo

C12_CapacityNeverShrinks ==
  (frameNo > 0 /\ pc # "crashed") =>
    /\ Capacity(fishPers) >= hist.capBefore
    /\ Capacity(fishPersBuffer) >= hist.capBefore
    /\ mCurFishCount <= hist.capBefore => hist.replaced = 0

\* C13: after any sequence of reallocResource calls nothing of a replaced set
\* is left unreleased: no bind group, no bind-group array, and no fish buffer
\* besides the live one.
C13_OldSetReleased ==
  /\ hist.keptGroups = 0
  /\ hist.keptArrays = 0
  /\ hist.staleBuffers = 0

\* The reading of the clock in frame n (0: at the end of init).
FrameTime(n) == hist.sessionStart + SumSeq(hist.elapsed, n)

\* The run-time limit in ticks.
TestTicks == mTestTime * TicksPerSecond

\* The model is in the frame loop of display().
InDisplay == pc \notin {"calc", "calcDone", "timer"}

\* C14 (amended): with the run-time limit on, the loop exits after the first
\* frame in which g.then - g.start exceeds the limit, where g.then is the
\* clock reading of that frame and g.start the reading at the end of init or
\* in the last frame that realized a new total; no frame is rendered after
\* the exit.
C14_ExitOverLimit ==
  (toggleBitset.AUTOSTOP /\ InDisplay) =>
    /\ g.then = FrameTime(frameNo)
    /\ g.start = FrameTime(hist.changeFrame)
    /\ (pc = "loop" /\ frameNo > 0) => g.then - g.start <= TestTicks
    /\ hist.exit = "testTime" =>
         /\ pc = "terminated"
         /\ g.then - g.start > TestTicks
         /\ hist.submittedFrame = frameNo
    /\ (pc = "terminated" /\ g.then - g.start > TestTicks) => hist.exit = "testTime"

\* C14 witness: the total changed during the run and the loop then ended on
\* the limit.
C14_Witness ==
  /\ hist.exit = "testTime"
  /\ hist.changeFrame > 0
  /\ frameNo > hist.changeFrame
  /\ mTestTime = MaxTestTime

\* C14 as stated: the loop exits after the first frame at which the time
\* since the session started exceeds the limit, also when the population
\* changed during the run.
C14_ExitOverSessionLimit ==
  (toggleBitset.AUTOSTOP /\ InDisplay) =>
    /\ (pc = "loop" /\ frameNo > 0) => g.then - hist.sessionStart <= TestTicks
    /\ hist.exit = "testTime" =>
         /\ pc = "terminated"
         /\ g.then - hist.sessionStart > TestTicks
         /\ hist.submittedFrame = frameNo

\* C15: the loop of display() ends only at a test made between frames, with
\* every frame it began drawn, submitted and presented; the test of the
\* run-time limit is the only exit besides ShouldQuit at the head of the loop.
C15_ExitBetweenFrames ==
  /\ hist.exit # "none" => pc = "terminated"
  /\ (InDisplay /\ pc = "terminated") =>
       /\ hist.exit \in {"quit", "testTime"}
       /\ hist.recordsFrame = frameNo
       /\ hist.submittedFrame = frameNo
       /\ mCommandBuffers = << >>
  /\ hist.exit = "testTime" => TestTimeOver(toggleBitset, g, mTestTime)

\* C15 witness: the loop ended on the run-time limit after two frames that
\* drew fish and were submitted.
C15_Witness ==
  /\ pc = "terminated"
  /\ hist.exit = "testTime"
  /\ frameNo >= 2
  /\ hist.drawn > 0
  /\ hist.submittedFrame = frameNo

\* C16: once a frame has realized a new total, no FPS sample stored in an
\* earlier frame is left in the history variance() reads.
C16_SamplesDropped ==
  (InDisplay /\ hist.changeFrame > 0) =>
    \A i \in 1 .. NUM_HISTORY_DATA :
      hist.sampleFrame[i] = 0 \/ hist.sampleFrame[i] >= hist.changeFrame

\* The last n frame times passed to update are all e.
LastSamplesAre(n, e) ==
  /\ Len(hist.elapsed) >= n
  /\ \A i \in (Len(hist.elapsed) - n + 1) .. Len(hist.elapsed) : hist.elapsed[i] = e

\* C17: after NUM_FRAMES_TO_AVERAGE updates with the same frame time e > 0
\* the averaged FPS is 1/e rounded to the nearest integer, whatever the
\* table held before.
C17_SteadyAverage ==
  \A e \in ElapsedTimes :
    (pc = "timer" /\ LastSamplesAre(NUM_FRAMES_TO_AVERAGE, e)) =>
      mFpsTimer.mAverageFPS = (2 * TicksPerSecond + e) \div (2 * e)

\* C17 witness: a fresh timer has had exactly NUM_FRAMES_TO_AVERAGE updates of
\* 3 ticks, a frame time whose rate is not a whole number.
C17_Witness ==
  /\ pc = "timer"
  /\ Len(hist.elapsed) = NUM_FRAMES_TO_AVERAGE
  /\ LastSamplesAre(NUM_FRAMES_TO_AVERAGE, 3)
  /\ mFpsTimer.mTimeTableCursor = 0
  /\ mFpsTimer.mAverageFPS > 1

\* C18: variance() returns 0 on a fresh timer and as long as update has not
\* filled the whole history.
C18_ZeroUntilFilled ==
  (pc = "timer" /\ Len(hist.elapsed) < NUM_HISTORY_DATA) => variance(mFpsTimer) = 0

\* The mean of the history rounded to the nearest integer.
RoundedMean(h) ==
  (2 * SumSeq(h, NUM_HISTORY_DATA) + NUM_HISTORY_DATA) \div (2 * NUM_HISTORY_DATA)

\* C19: variance() returns 0 when the population variance of the history is
\* not below FPS_VALID_THRESHOLD, and the mean rounded to the nearest integer
\* otherwise.
C19_RoundedMean ==
  pc = "timer" =>
    variance(mFpsTimer) = (IF VarianceBelowThreshold(mFpsTimer.mHistoryFPS)
                           THEN RoundedMean(mFpsTimer.mHistoryFPS) ELSE 0)

\* The species of a class, in table order.
SpeciesOfClass(type) ==
  SelectSeq([j \in 1 .. NumSpecies |-> j], LAMBDA j : fishTable[j].type = type)

\* BIG before MEDIUM before SMALL, table order within a class.
PriorityOrder == SpeciesOfClass(BIG) \o SpeciesOfClass(MEDIUM) \o SpeciesOfClass(SMALL)

\* The cap a class puts on one species for a total.
ClassRule(type, total) ==
  IF type = BIG THEN (IF total < g_numFishSmall THEN 1 ELSE 2)
  ELSE IF total < g_numFishMedium THEN CDiv(total, 10)
  ELSE IF total < g_numFishBig THEN g_numFishLeftSmall
  ELSE g_numFishLeftBig

\* What the first k species of PriorityOrder hold together.
Granted(k) ==
  LET slots == [i \in 1 .. k |-> fishCount[fishTable[PriorityOrder[i]].slot]]
  IN  SumSeq(slots, k)

\* C20: calculateFishCount serves BIG, then MEDIUM, then SMALL, the species of
\* a class in table order; each species gets min(remaining pool, class rule),
\* a SMALL species the whole remaining pool.
C20_ServedByPriority ==
  pc \in {"calc", "calcDone"} =>
    /\ numLeft = mCurFishCount - Granted(calcPos - 1)
    /\ \A k \in 1 .. (calcPos - 1) :
         LET info == fishTable[PriorityOrder[k]]
             pool == mCurFishCount - Granted(k - 1)
         IN  fishCount[info.slot] =
               (IF info.type = SMALL THEN pool
                ELSE Min(pool, ClassRule(info.type, mCurFishCount)))

\* C20 witness: a run for a total between the two upper thresholds has
\* finished: two of each BIG species, the small fixed count of each MEDIUM
\* species, the rest SMALL.
C20_Witness ==
  /\ pc = "calcDone"
  /\ mCurFishCount >= g_numFishMedium
  /\ mCurFishCount < g_numFishBig
  /\ fishCount[3] = 2 /\ fishCount[4] = 2
  /\ fishCount[1] = g_numFishLeftSmall /\ fishCount[2] = g_numFishLeftSmall
  /\ fishCount[0] = mCurFishCount - 4 - 2 * g_numFishLeftSmall

\* C21: whatever totals were realized before, the allocation in fishCount is
\* the one a run of calculateFishCount for the present total leaves on an
\* array of zeros: every species' count was overwritten.
C21_NoResidue ==
  InDisplay => \A s \in Slots : fishCount[s] = calculateFishCount(mCurFishCount, ZeroCounts)[s]

\* C21 witness: the second frame lowered a total of at least 2 to 1, and the
\* second BIG species, which held a fish, holds none.
C21_Witness ==
  /\ pc = "updateAndDraw"
  /\ frameNo = 2
  /\ hist.realizedBefore >= 2
  /\ mCurFishCount = 1
  /\ hist.reallocCalls = 1
  /\ fishCount[4] = 0
  /\ fishCount[3] = 1

RECURSIVE PoolInRangeFrom(_, _, _)
\* From the k-th served species on, with `left` fish in the pool: the pool is
\* never negative and every species gets between 0 and what is in the pool.
PoolInRangeFrom(k, total, left) ==
  IF k > Len(ServeOrder) THEN left >= 0
  ELSE LET numfloat == NumFloat(fishTable[ServeOrder[k]].type, total, left)
       IN  /\ left >= 0
           /\ 0 <= numfloat
           /\ numfloat <= left
           /\ PoolInRangeFrom(k + 1, total, left - numfloat)

\* C22: in every run of calculateFishCount of the frame loop numLeft is never
\* negative and every species gets between 0 and the pool left before it.
C22_PoolInRange ==
  InDisplay => PoolInRangeFrom(1, mCurFishCount, mCurFishCount)


\* What init leaves untouched when it returns false: the context is not
\* initialized, no record array, bind group or buffer exists, no scenario is
\* loaded and no frame has begun.
NothingStarted ==
  /\ pc = "initFailed"
  /\ ~hist.contextInitialized
  /\ fishCount = ZeroCounts
  /\ fishPers = NULL /\ bindGroupFishPers = NULL
  /\ fishPersBuffer = NULL /\ stagingBuffer = NULL
  /\ mFishBehavior = << >>
  /\ mCommandBuffers = << >>
  /\ frameNo = 0

\* C23: once init has returned for a command line whose --num-fish is zero or
\* less, it has returned false: the context is not initialized, nothing is
\* allocated from the species table, no GPU resource exists and no frame is
\* rendered.
C23_NoFishNoStart ==
  (pc # "start" /\ hist.numFish <= 0) => NothingStarted

\* Options of the command line whose toggle the backend does not support.
Unsupported ==
  { k \in 1 .. Len(OptionSteps) :
      /\ OptionSteps[k].option \in hist.requested
      /\ OptionSteps[k].checked
      /\ OptionSteps[k].toggle \notin hist.available }

\* C25: once init has returned for a command line that requests an optional
\* feature the backend does not support, it has returned false with the
\* context not initialized and no resource loaded, and the toggle of that
\* feature is not set.
C25_UnsupportedRejected ==
  (pc # "start" /\ Unsupported # {}) =>
    /\ NothingStarted
    /\ \A k \in Unsupported : ~toggleBitset[OptionSteps[k].toggle]

\* C25: init has rejected --turn-off-vsync on Dawn after it had accepted
\* --buffer-mapping-async.
C25_Witness ==
  /\ pc = "initFailed"
  /\ hist.available = DawnAvailable
  /\ hist.requested = {"buffer-mapping-async", "turn-off-vsync"}
  /\ toggleBitset.BUFFERMAPPINGASYNC
  /\ ~toggleBitset.TURNOFFVSYNC

\* The last call of MapWriteCallback had a status other than success, or
\* null data.
CallbackFailed ==
  /\ hist.callback.status # "none"
  /\ hist.callback.status # "SUCCESS" \/ hist.callback.data = NULL

\* C24: once MapWriteCallback has been called with a status other than
\* success or with null data, the run has ended in the failed assertion: the
\* staging buffer did not receive the frame's records, no copy command is in
\* the list, mappedData is not set, the list of the frame was not submitted,
\* and the mapping is not requested again.
C24_FailedCallbackIsFatal ==
  CallbackFailed =>
    /\ pc = "crashed"
    /\ hist.stagingFrame < frameNo
    /\ Copies(mCommandBuffers) = {}
    /\ mappedData = NULL
    /\ hist.submittedFrame < frameNo
    /\ hist.mapFrame = frameNo /\ mapPending

\* C24: the callback of the second frame failed after the first frame's
\* mapping had succeeded and been submitted.
C24_Witness ==
  /\ CallbackFailed
  /\ frameNo = 2
  /\ hist.stagingFrame = 1
  /\ hist.submittedFrame = 1
  /\ Positions(mCommandBuffers, "render", 2) # {}

\* DoFlush is in its wait loop: the frame's list is neither submitted nor
\* presented until mappedData is set.
Blocked == pc = "wait" /\ ~MayFlush(toggleBitset.BUFFERMAPPINGASYNC, mappedData)

\* C26: DoFlush waits for the mapping only in a frame that requested one, so
\* that, the callback of every requested mapping firing, the frame's submit
\* and present follow in every combination of the async and batched toggles.
C26_BlocksOnlyOnRequest ==
  Blocked => (mapPending /\ hist.mapFrame = frameNo)

\* The slot of mTimeTable written by the j-th last of n calls of update.
SlotOfLast(j, n) == ((n - j) % NUM_FRAMES_TO_AVERAGE) + 1

\* C27: after any number of calls of update, mTotalTime is the sum of the
\* NUM_FRAMES_TO_AVERAGE entries of mTimeTable, the cursor lies in
\* [0, NUM_FRAMES_TO_AVERAGE - 1] and has gone round after the last slot, and
\* the table holds the last min(calls, NUM_FRAMES_TO_AVERAGE) samples, the
\* oldest entry at the cursor (the constructor's while the table is not full).
C27_RollingWindow ==
  pc \in {"timer", "crashed"} =>
    LET n == Len(hist.elapsed)
        held == Min(n, NUM_FRAMES_TO_AVERAGE)
        t == mFpsTimer
    IN  /\ t.mTotalTime = SumSeq(t.mTimeTable, NUM_FRAMES_TO_AVERAGE)
        /\ t.mTimeTableCursor \in 0 .. NUM_FRAMES_TO_AVERAGE - 1
        /\ t.mTimeTableCursor = n % NUM_FRAMES_TO_AVERAGE
        /\ \A j \in 1 .. held :
             t.mTimeTable[SlotOfLast(j, n)] = hist.elapsed[n - j + 1]
        /\ \A j \in held + 1 .. NUM_FRAMES_TO_AVERAGE :
             t.mTimeTable[SlotOfLast(j, n)] = TicksPerSecond
        /\ t.mTimeTableCursor + 1 = SlotOfLast(NUM_FRAMES_TO_AVERAGE, n)

\* C27: one call more than the table has slots: the cursor has gone round,
\* the first sample is replaced and the second is the oldest, at the cursor.
C27_Witness ==
  /\ pc = "timer"
  /\ Len(hist.elapsed) = NUM_FRAMES_TO_AVERAGE + 1
  /\ hist.elapsed[1] = 1 /\ hist.elapsed[2] = 3
  /\ hist.elapsed[NUM_FRAMES_TO_AVERAGE + 1] = TicksPerSecond
  /\ mFpsTimer.mTimeTableCursor = 1
  /\ mFpsTimer.mTimeTable[1] = TicksPerSecond
  /\ mFpsTimer.mTimeTable[2] = 3

\* C28: every index update uses on mHistoryFPS and mHistoryFrameTime lies in
\* [0, NUM_HISTORY_DATA - 1]: the shift reads entry i + 1 only where it
\* exists, and the newest value is stored in the last slot.
C28_HistoryIndexInRange ==
  /\ 0 <= hist.historyIndex /\ hist.historyIndex <= NUM_HISTORY_DATA - 1
  /\ hist.elapsed # << >> =>
       mFpsTimer.mHistoryFPS[NUM_HISTORY_DATA] = mFpsTimer.mAverageFPS

\* The frame's records have just been uploaded: by the SetSubData of
\* updateAllFishData, or by the memcpy and copy command of MapWriteCallback.
Uploaded ==
  \/ pc = "doFlush" /\ Batched /\ ~Async
  \/ pc = "wait" /\ Batched /\ Async /\ mappedData # NULL

\* C29: whenever the records are uploaded, mCurTotalInstance is at least 0 and
\* at most the record count for which the record array, the staging buffer
\* and the fish buffer were last allocated.
C29_UploadWithinCapacity ==
  Uploaded =>
    /\ 0 <= mCurTotalInstance
    /\ mCurTotalInstance <= Capacity(fishPers)
    /\ mCurTotalInstance <= Capacity(stagingBuffer)
    /\ mCurTotalInstance <= Capacity(fishPersBuffer)

\* A mapping of the staging buffer is outstanding: requested and not yet
\* completed, or completed and not yet unmapped.
MappingOutstanding == mapPending \/ mappedData # NULL

\* C30: the record array, the staging buffer and the fish buffer are never
\* replaced while a mapping is outstanding; when render() begins, and so
\* whenever reallocResource runs, the previous mapping has completed and
\* mappedData has been cleared with the staging buffer unmapped; and a mapping
\* is requested only when none is outstanding.
C30_NoReallocWhileMapping ==
  [][ /\ MappingOutstanding =>
           UNCHANGED << fishPers, fishPersBuffer, stagingBuffer >>
      /\ (pc = "loop" /\ pc' = "updateAndDraw") => ~MappingOutstanding
      /\ (pc = "updateAndDraw" /\ mapPending') => ~MappingOutstanding ]_vars

\* C30: the second frame of an asynchronous batched run replaced the buffers
\* after the first frame's mapping had been completed, unmapped and submitted.
C30_Witness ==
  /\ pc = "wait" /\ frameNo = 2
  /\ Batched /\ Async
  /\ hist.replaced = 1
  /\ hist.submittedFrame = 1 /\ hist.stagingFrame = 1
  /\ mapPending /\ hist.mapFrame = 2

\* Calls of draw on model i in the final pass of the last updateAndDraw.
DrawCallsOn(i) == Cardinality({ k \in 1 .. Len(hist.drawCalls) : hist.drawCalls[k] = i })

\* C31: in batched mode the final pass of updateAndDraw has called draw once
\* on every loaded model, the static ones and those of the fish range in
\* use, and has used no index of mAquariumModels at or above MODELMAX.
C31_DrawPassInTable ==
  (Batched /\ hist.recordsFrame >= 1) =>
    /\ \A k \in 1 .. Len(hist.drawCalls) :
         hist.drawCalls[k] >= 0 /\ hist.drawCalls[k] < MODELMAX
    /\ \A i \in loadModels(toggleBitset) : DrawCallsOn(i) = 1
    /\ \A i \in (0 .. MODELMAX) \ loadModels(toggleBitset) : DrawCallsOn(i) = 0

\* C31: a batched frame has run its final pass over the static models and the
\* five fish models.
C31_Witness ==
  /\ pc = "doFlush" /\ Batched /\ frameNo = 2
  /\ Len(hist.drawCalls) = NumStaticModels + NumSpecies
  /\ hist.drawCalls[Len(hist.drawCalls)] = MODELBIGFISHB

\* C32: g.mclock and g.eyeClock never decrease from one step of the run to
\* the next, frames that realize a new population and restart g.start and
\* g.then included, and the elapsed time a frame feeds to them is not
\* negative.
C32_ClocksNeverGoBack ==
  [][ /\ g'.mclock >= g.mclock
      /\ g'.eyeClock >= g.eyeClock
      /\ frameNo' # frameNo =>
           /\ hist'.elapsed[frameNo'] >= 0
           /\ g'.mclock = g.mclock + hist'.elapsed[frameNo'] * g_speed
           /\ g'.eyeClock = g.eyeClock + hist'.elapsed[frameNo'] * g_eyeSpeed ]_vars

\* C32: the second frame realized a new population and restarted the
\* baseline, and both clocks kept the time of the two frames.
C32_Witness ==
  /\ pc = "updateAndDraw" /\ frameNo = 2
  /\ hist.changeFrame = 2
  /\ g.start = now /\ g.then = now
  /\ g.mclock = SumSeq(hist.elapsed, 2) * g_speed
  /\ g.eyeClock = SumSeq(hist.elapsed, 2) * g_eyeSpeed
  /\ g.mclock > 0

C34_PosesFromResetSeed ==
  /\ pc = "updateAndDraw" => randomSeed = 0 /\ hist.poses = << >>
  /\ (frameNo >= 1 /\ hist.recordsFrame = frameNo) =>
       /\ hist.poses = Poses(0, g.mclock, fishCount).records
       /\ randomSeed = Poses(0, g.mclock, fishCount).seed

\* C34: the second frame computed the poses of two fish from a reset
\* generator that the first frame had left advanced.
C34_Witness ==
  /\ pc = "doFlush" /\ frameNo = 2
  /\ hist.realizedBefore >= 1
  /\ Len(hist.poses) = 2
  /\ hist.poses[1].random[1] = pseudoRandom(0)
  /\ randomSeed # 0

\* C35: a frame that begins with mIsSwapchainOutOfDate set recreates the
\* size-dependent targets and configures the swapchain before it acquires
\* the next texture, once, and clears the flag; a frame that begins with the
\* flag clear recreates nothing, so the signals before a frame are answered
\* by one recreation and by no later one.
C35_RecreateOncePerSignal ==
  [][ frameNo' # frameNo =>
        /\ ~mIsSwapchainOutOfDate'
        /\ mIsSwapchainOutOfDate =>
             /\ hist'.preFrame = << "recreate", "configure", "acquire" >>
             /\ hist'.recreations = hist.recreations + 1
        /\ ~mIsSwapchainOutOfDate =>
             /\ hist'.preFrame = << "acquire" >>
             /\ hist'.recreations = hist.recreations ]_vars

\* C35: the window was resized after the first and after the second frame;
\* the third frame has recreated the targets for the second time.
C35_Witness ==
  /\ pc = "updateAndDraw" /\ frameNo = 3
  /\ hist.signals = 2 /\ hist.recreations = 2
  /\ hist.preFrame = << "recreate", "configure", "acquire" >>
  /\ ~mIsSwapchainOutOfDate

\* C36: the behaviour step of a frame leaves every event behind the head as
\* it was (countdown, operation and count) and changes of the head only its
\* countdown, unless it pops it; with scripted mode off or the queue empty
\* it changes neither the queue nor the population target.
C36_OnlyHeadChanges ==
  [][ (frameNo' # frameNo) =>
        IF ~toggleBitset.SIMULATINGFISHCOMEANDGO \/ mFishBehavior = << >>
        THEN mFishBehavior' = mFishBehavior /\ mCurFishCount' = mCurFishCount
        ELSE \/ /\ Head(mFishBehavior).frame = 0
                /\ mFishBehavior' = Tail(mFishBehavior)
             \/ /\ Head(mFishBehavior).frame > 0
                /\ Len(mFishBehavior') = Len(mFishBehavior)
                /\ Tail(mFishBehavior') = Tail(mFishBehavior)
                /\ Head(mFishBehavior').op = Head(mFishBehavior).op
                /\ Head(mFishBehavior').count = Head(mFishBehavior).count
                /\ mCurFishCount' = mCurFishCount ]_vars

\* C36: after the first step the head has counted down to 0 and the event
\* behind it still has its whole countdown of one step.
C36_Witness ==
  /\ pc = "updateAndDraw" /\ frameNo = 1
  /\ Len(mFishBehavior) = 2
  /\ mFishBehavior[1].k = 1 /\ mFishBehavior[1].frame = 0
  /\ mFishBehavior[2].k = 1 /\ mFishBehavior[2].frame = 1

\* C37: init leaves the realized count equal to the target and the record
\* array and both buffers sized for it, and while no event has moved the
\* target the first frame calls neither calculateFishCount nor
\* reallocResource and keeps allocation and buffers as init left them.
C37_FirstFrameKeepsInit ==
  (pc # "crashed" /\ frameNo <= 1 /\ hist.applied = << >>) =>
    /\ mPreFishCount = mCurFishCount
    /\ mCurFishCount = hist.headBase
    /\ ~hist.reallocCalled /\ hist.reallocCalls = 0 /\ hist.replaced = 0
    /\ fishCount = calculateFishCount(hist.headBase, ZeroCounts)
    /\ Capacity(fishPers) = mCurFishCount
    /\ Capacity(fishPersBuffer) = mCurFishCount
    /\ Capacity(stagingBuffer) = mCurFishCount

\* C37: the first frame of a scripted run whose first event is not yet due
\* has drawn the two fish init allocated for.
C37_Witness ==
  /\ pc = "doFlush" /\ frameNo = 1
  /\ hist.applied = << >> /\ Len(mFishBehavior) = 1
  /\ mCurFishCount = 2 /\ hist.drawn = 2
  /\ fishPers = 2 /\ ~hist.reallocCalled

\* C38: whenever destoryFishResource has run, the bind-group slots it
\* visited (mPreTotalInstance of them in per-instance mode, one in
\* dynamic-offset mode, none without an array) were no more than the length
\* the array had been allocated with.
C38_SlotsWithinArray ==
  /\ 0 <= hist.slots
  /\ hist.slots <= hist.arrayLength

\* C38: in per-instance mode a growth after a shrink released one slot of an
\* array of two.
C38_Witness ==
  /\ pc = "updateAndDraw"
  /\ ~mEnableDynamicBufferOffset
  /\ hist.replaced = 1
  /\ hist.slots = 1 /\ hist.arrayLength = 2
=============================================================================
